---- MODULE Spec2Model ----
(***************************************************************************)
(* Model of tooling/xtask/src/main.rs: the `cargo xtask clippy` wrapper.   *)
(*                                                                         *)
(* The program is one sequential process.  Its position is pc; every       *)
(* action below is one statement (or one library call) of main or          *)
(* run_clippy.  The operating system contributes three nondeterministic    *)
(* outcomes: whether spawn succeeds, when and how the child terminates,    *)
(* and whether wait succeeds.                                              *)
(*                                                                         *)
(* Environment assumption: writes to standard error succeed.               *)
(***************************************************************************)
EXTENDS Integers, Sequences, FiniteSets, TLC

\* ------------------------------------------------------------------ bounds

\* Exit codes the child may report are 0..MaxExitCode.
MaxExitCode == 2
\* Signals that may kill the child are 1..MaxSignal.
MaxSignal == 1

\* ------------------------------------------------------------- input sets

\* Option<String> is a sequence of length 0 (None) or 1 (Some(s)).
None == <<>>
Some(s) == <<s>>

\* Package names tried for `--package`; several equal a flag the wrapper
\* itself emits.
PackageNames ==
    {"editor", "foo", "--workspace", "--package", "--allow", "--deny",
     "--", "clippy::style"}

Packages == {None} \cup {Some(s) : s \in PackageNames}

\* Values of the CARGO environment variable as std::env::var sees it.
CargoEnvs ==
    {[kind |-> "NotPresent", val |-> ""],
     [kind |-> "NotUnicode", val |-> ""],
     [kind |-> "Ok", val |-> "/toolchain/bin/cargo"]}

\* std::process::ExitStatus: a normal exit with a code, or death by signal.
NoStatus == [exited |-> FALSE, val |-> 0]

ExitStatuses ==
    {[exited |-> TRUE, val |-> c] : c \in 0..MaxExitCode}
        \cup {[exited |-> FALSE, val |-> s] : s \in 1..MaxSignal}

\* ExitStatus::success()
success(st) == st.exited /\ st.val = 0

\* Display for ExitStatus, as interpolated by bail!("clippy failed: {}", ..).
Display(st) ==
    IF st.exited THEN <<"exit status: ", st.val>> ELSE <<"signal: ", st.val>>

\* ---------------------------------------------------------------- program

MIGRATORY_RULES_TO_ALLOW ==
    << "clippy::style",
       "clippy::almost_complete_range",
       "clippy::arc_with_non_send_sync",
       "clippy::await_holding_lock",
       "clippy::bool_comparison",
       "clippy::borrow_deref_ref",
       "clippy::borrowed_box",
       "clippy::cast_abs_to_unsigned",
       "clippy::clone_on_copy",
       "clippy::cmp_owned",
       "clippy::crate_in_macro_def",
       "clippy::default_constructed_unit_structs",
       "clippy::derivable_impls",
       "clippy::derive_ord_xor_partial_ord",
       "clippy::drain_collect",
       "clippy::eq_op",
       "clippy::expect_fun_call",
       "clippy::explicit_auto_deref",
       "clippy::explicit_counter_loop",
       "clippy::extra_unused_lifetimes",
       "clippy::filter_map_identity",
       "clippy::identity_op",
       "clippy::implied_bounds_in_impls",
       "clippy::iter_kv_map",
       "clippy::iter_overeager_cloned",
       "clippy::let_underscore_future",
       "clippy::manual_find",
       "clippy::manual_flatten",
       "clippy::map_entry",
       "clippy::map_flatten",
       "clippy::map_identity",
       "clippy::needless_arbitrary_self_type",
       "clippy::needless_borrowed_reference",
       "clippy::needless_lifetimes",
       "clippy::needless_option_as_deref",
       "clippy::needless_question_mark",
       "clippy::needless_update",
       "clippy::never_loop",
       "clippy::non_canonical_clone_impl",
       "clippy::non_canonical_partial_ord_impl",
       "clippy::nonminimal_bool",
       "clippy::option_as_ref_deref",
       "clippy::option_map_unit_fn",
       "clippy::redundant_closure_call",
       "clippy::redundant_guards",
       "clippy::redundant_locals",
       "clippy::reversed_empty_ranges",
       "clippy::search_is_some",
       "clippy::single_char_pattern",
       "clippy::single_range_in_vec_init",
       "clippy::suspicious_to_owned",
       "clippy::to_string_in_format_args",
       "clippy::too_many_arguments",
       "clippy::type_complexity",
       "clippy::unit_arg",
       "clippy::unnecessary_cast",
       "clippy::unnecessary_filter_map",
       "clippy::unnecessary_find_map",
       "clippy::unnecessary_operation",
       "clippy::unnecessary_to_owned",
       "clippy::unnecessary_unwrap",
       "clippy::useless_conversion",
       "clippy::useless_format",
       "clippy::vec_init_then_push" >>

VARIABLES
    pc,              \* position of the process
    env_CARGO,       \* the CARGO environment variable
    target_windows,  \* cfg(target_os = "windows") of the build
    command,         \* outcome of Args::parse(): args.command
    fix,             \* ClippyArgs.fix
    package,         \* ClippyArgs.package
    cargo,           \* local `cargo` of run_clippy
    clippy_command,  \* the std::process::Command being built
    rule_idx,        \* position of the `for rule in ..` loop
    stderr,          \* lines written to standard error
    child,           \* the child process: "none", "running", "exited"
    child_status,    \* the status the child terminated with
    calls,           \* calls made on the command, child and status, in order
    exit_status,     \* local `exit_status` of run_clippy
    result,          \* what run_clippy returned
    exit_code        \* exit code of the wrapper process (-1 while it runs)

vars ==
    <<pc, env_CARGO, target_windows, command, fix, package, cargo,
      clippy_command, rule_idx, stderr, child, child_status, calls,
      exit_status, result, exit_code>>

\* --------------------------------------------------------------- helpers

\* std::env::var("CARGO").unwrap_or_else(|_| "cargo".to_string())
ResolveCargo(e) == IF e.kind = "Ok" THEN e.val ELSE "cargo"

\* A slip: the whole-workspace flag is appended in both branches.
ScopeArgsBoth(p) ==
    IF Len(p) = 1 THEN <<"--package", p[1], "--workspace">>
                  ELSE <<"--workspace">>

\* if let Some(package) = args.package { --package <package> } else { --workspace }
ScopeArgs(p) ==
    IF Len(p) = 1 THEN <<"--package", p[1]>> ELSE <<"--workspace">>

BuildFlags == <<"--release", "--all-targets", "--all-features">>

\* if args.fix { clippy_command.arg("--fix"); }
FixArgs(f) == IF f THEN <<"--fix">> ELSE <<>>

\* A slip: the cfg attribute is left out.
DenyWarningsEverywhere(windows) == <<"--deny", "warnings">>

\* #[cfg(not(target_os = "windows"))] clippy_command.args(["--deny", "warnings"]);
DenyWarningsArgs(windows) ==
    IF windows THEN <<>> ELSE <<"--deny", "warnings">>

\* A slip: the `if !args.fix` around the loop is left out.
AppendsAllowsAlways(f) == TRUE

\* if !args.fix { for rule in MIGRATORY_RULES_TO_ALLOW { .. } }
AppendsAllows(f) == ~f

\* A slip: the rules are denied instead of allowed.
AllowArgsAsDeny(rule) == <<"--deny", rule>>

\* clippy_command.args(["--allow", rule]);
AllowArgs(rule) == <<"--allow", rule>>

\* A slip: the second forced deny is left out.
ForcedDenyArgsNoTodo == <<"--deny", "clippy::dbg_macro">>

ForcedDenyArgs ==
    <<"--deny", "clippy::dbg_macro", "--deny", "clippy::todo">>

\* eprintln!("running: {cargo} {}", args.join(" ")): the line, word by word.
RunningLine(prog, args) ==
    [kind |-> "running", words |-> <<prog>> \o args]

\* Result<()> of run_clippy.  An Err is an anyhow::Error: its context
\* message, the error it wraps, and the status text it interpolates.
NoResult == [tag |-> "none", context |-> "", source |-> "", status |-> <<>>]
Ok == [tag |-> "Ok", context |-> "", source |-> "", status |-> <<>>]

\* A slip: the context of the other call is pasted onto spawn.
SpawnFailureMiscontexted ==
    [tag |-> "Err", context |-> "failed to wait for child process",
     source |-> "io::Error", status |-> <<>>]

\* .spawn().context("failed to spawn child process")?
SpawnFailure ==
    [tag |-> "Err", context |-> "failed to spawn child process",
     source |-> "io::Error", status |-> <<>>]

\* .wait().context("failed to wait for child process")?
WaitFailure ==
    [tag |-> "Err", context |-> "failed to wait for child process",
     source |-> "io::Error", status |-> <<>>]

\* bail!("clippy failed: {}", exit_status)
LintFailure(st) ==
    [tag |-> "Err", context |-> "clippy failed: {}",
     source |-> "", status |-> Display(st)]

\* A slip: the `!` of the test is left out.
StatusResultInverted(st) == IF success(st) THEN LintFailure(st) ELSE Ok

\* if !exit_status.success() { bail!(..) } Ok(())
StatusResult(st) == IF ~success(st) THEN LintFailure(st) ELSE Ok

\* A slip: after an error the child is spawned again.
OnErrRetry == "spawn"

\* `?` applied to an Err returns it from run_clippy at once.
OnErr == "returned"

\* A slip: the child is polled (try_wait) instead of waited for.
WaitReturnsAtOnce(c) == TRUE

\* Child::wait blocks until the child has exited before it returns a status.
WaitReturns(c) == c = "exited"

\* A slip: main drops the result of run_clippy and returns Ok(()).
ExitCodeAlwaysZero(r) == 0

\* Termination for Result<(), anyhow::Error>: Ok exits 0, Err exits 1.
ExitCodeOf(r) == IF r.tag = "Ok" THEN 0 ELSE 1

\* What the process prints for an Err returned from main.
ErrorLine(r) == [kind |-> "error", words |-> <<r.context>>]

\* -------------------------------------------------------------------- init

Init ==
    /\ pc = "main"
    /\ env_CARGO \in CargoEnvs
    /\ target_windows \in BOOLEAN
    /\ command = "unparsed"
    /\ fix = FALSE
    /\ package = None
    /\ cargo = ""
    /\ clippy_command = [program |-> "", args |-> <<>>]
    /\ rule_idx = 0
    /\ stderr = <<>>
    /\ child = "none"
    /\ child_status = NoStatus
    /\ calls = <<>>
    /\ exit_status = NoStatus
    /\ result = NoResult
    /\ exit_code = -1

\* ----------------------------------------------------------------- main

\* Args::parse() yields CliCommand::Clippy(ClippyArgs { fix, package }).
ParseClippy ==
    /\ pc = "main"
    /\ \E f \in BOOLEAN, p \in Packages :
        /\ fix' = f
        /\ package' = p
    /\ command' = "Clippy"
    /\ pc' = "new_command"
    /\ UNCHANGED <<env_CARGO, target_windows, cargo, clippy_command,
                   rule_idx, stderr, child, child_status, calls,
                   exit_status, result, exit_code>>

\* Args::parse() on --help: clap prints the help and exits with status 0.
ParseHelp ==
    /\ pc = "main"
    /\ command' = "help"
    /\ exit_code' = 0
    /\ pc' = "exited"
    /\ UNCHANGED <<env_CARGO, target_windows, fix, package, cargo,
                   clippy_command, rule_idx, stderr, child, child_status,
                   calls, exit_status, result>>

\* Args::parse() on a malformed command line: clap prints the usage error
\* to standard error and exits with status 2.
ParseUsageError ==
    /\ pc = "main"
    /\ command' = "usage_error"
    /\ stderr' = Append(stderr, [kind |-> "usage", words |-> <<>>])
    /\ exit_code' = 2
    /\ pc' = "exited"
    /\ UNCHANGED <<env_CARGO, target_windows, fix, package, cargo,
                   clippy_command, rule_idx, child, child_status, calls,
                   exit_status, result>>

\* main returns what run_clippy returned; the runtime turns it into the
\* exit code and prints an Err to standard error.
MainReturn ==
    /\ pc = "returned"
    /\ exit_code' = ExitCodeOf(result)
    /\ stderr' = IF result.tag = "Err"
                     THEN Append(stderr, ErrorLine(result))
                     ELSE stderr
    /\ pc' = "exited"
    /\ UNCHANGED <<env_CARGO, target_windows, command, fix, package, cargo,
                   clippy_command, rule_idx, child, child_status, calls,
                   exit_status, result>>

\* ----------------------------------------------- run_clippy: construction

\* Command::arg / Command::args: append to the argument vector.
Push(cmd, more) == [cmd EXCEPT !.args = cmd.args \o more]

\* What a statement that only appends to the command leaves alone.
rest ==
    <<env_CARGO, target_windows, command, fix, package, cargo, rule_idx,
      stderr, child, child_status, calls, exit_status, result, exit_code>>

\* let cargo = ..; let mut clippy_command = Command::new(&cargo);
\* clippy_command.arg("clippy");
NewCommand ==
    /\ pc = "new_command"
    /\ cargo' = ResolveCargo(env_CARGO)
    /\ clippy_command' =
           Push([program |-> cargo', args |-> <<>>], <<"clippy">>)
    /\ pc' = "scope"
    /\ UNCHANGED <<env_CARGO, target_windows, command, fix, package,
                   rule_idx, stderr, child, child_status, calls,
                   exit_status, result, exit_code>>

ArgScope ==
    /\ pc = "scope"
    /\ clippy_command' = Push(clippy_command, ScopeArgs(package))
    /\ pc' = "build_flags"
    /\ UNCHANGED rest

ArgBuildFlags ==
    /\ pc = "build_flags"
    /\ clippy_command' = Push(clippy_command, BuildFlags)
    /\ pc' = "fix"
    /\ UNCHANGED rest

ArgFix ==
    /\ pc = "fix"
    /\ clippy_command' = Push(clippy_command, FixArgs(fix))
    /\ pc' = "separator"
    /\ UNCHANGED rest

ArgSeparator ==
    /\ pc = "separator"
    /\ clippy_command' = Push(clippy_command, <<"--">>)
    /\ pc' = "deny_warnings"
    /\ UNCHANGED rest

ArgDenyWarnings ==
    /\ pc = "deny_warnings"
    /\ clippy_command' = Push(clippy_command, DenyWarningsArgs(target_windows))
    /\ pc' = "allow"
    /\ UNCHANGED rest

\* if !args.fix: enter the loop over the rules, or skip it.
AllowBranch ==
    /\ pc = "allow"
    /\ IF AppendsAllows(fix)
           THEN pc' = "allow_loop" /\ rule_idx' = 1
           ELSE pc' = "forced_deny" /\ rule_idx' = rule_idx
    /\ UNCHANGED <<env_CARGO, target_windows, command, fix, package, cargo,
                   clippy_command, stderr, child, child_status, calls,
                   exit_status, result, exit_code>>

\* One iteration of `for rule in MIGRATORY_RULES_TO_ALLOW`.
AllowRule ==
    /\ pc = "allow_loop"
    /\ rule_idx <= Len(MIGRATORY_RULES_TO_ALLOW)
    /\ clippy_command' =
           Push(clippy_command, AllowArgs(MIGRATORY_RULES_TO_ALLOW[rule_idx]))
    /\ rule_idx' = rule_idx + 1
    /\ UNCHANGED <<pc, env_CARGO, target_windows, command, fix, package,
                   cargo, stderr, child, child_status, calls, exit_status,
                   result, exit_code>>

\* The iterator is exhausted.
AllowDone ==
    /\ pc = "allow_loop"
    /\ rule_idx > Len(MIGRATORY_RULES_TO_ALLOW)
    /\ pc' = "forced_deny"
    /\ UNCHANGED <<env_CARGO, target_windows, command, fix, package, cargo,
                   clippy_command, rule_idx, stderr, child, child_status,
                   calls, exit_status, result, exit_code>>

ArgForcedDeny ==
    /\ pc = "forced_deny"
    /\ clippy_command' = Push(clippy_command, ForcedDenyArgs)
    /\ pc' = "emit"
    /\ UNCHANGED rest

\* -------------------------------------------------- run_clippy: execution

\* eprintln!("running: {cargo} {}", ..)
EmitCommandLine ==
    /\ pc = "emit"
    /\ stderr' = Append(stderr, RunningLine(cargo, clippy_command.args))
    /\ pc' = "spawn"
    /\ UNCHANGED <<env_CARGO, target_windows, command, fix, package, cargo,
                   clippy_command, rule_idx, child, child_status, calls,
                   exit_status, result, exit_code>>

\* clippy_command.spawn() succeeds: the child now runs beside the parent.
SpawnOk ==
    /\ pc = "spawn"
    /\ child' = "running"
    /\ calls' = Append(calls, "spawn:ok")
    /\ pc' = "wait"
    /\ UNCHANGED <<env_CARGO, target_windows, command, fix, package, cargo,
                   clippy_command, rule_idx, stderr, child_status,
                   exit_status, result, exit_code>>

\* clippy_command.spawn() fails: `?` returns the error with its context.
SpawnErr ==
    /\ pc = "spawn"
    /\ calls' = Append(calls, "spawn:err")
    /\ result' = SpawnFailure
    /\ pc' = OnErr
    /\ UNCHANGED <<env_CARGO, target_windows, command, fix, package, cargo,
                   clippy_command, rule_idx, stderr, child, child_status,
                   exit_status, exit_code>>

\* The child terminates, by exiting or by a signal, whenever it does.
ChildTerminates ==
    /\ child = "running"
    /\ \E st \in ExitStatuses : child_status' = st
    /\ child' = "exited"
    /\ UNCHANGED <<pc, env_CARGO, target_windows, command, fix, package,
                   cargo, clippy_command, rule_idx, stderr, calls,
                   exit_status, result, exit_code>>

\* .wait() returns Ok(status) once the child has terminated.
WaitOk ==
    /\ pc = "wait"
    /\ WaitReturns(child)
    /\ calls' = Append(calls, "wait:ok")
    /\ exit_status' = child_status
    /\ pc' = "check_status"
    /\ UNCHANGED <<env_CARGO, target_windows, command, fix, package, cargo,
                   clippy_command, rule_idx, stderr, child, child_status,
                   result, exit_code>>

\* .wait() fails: `?` returns the error with its context.  The operating
\* system's failure says nothing about the child, which may still run
\* (a Child that is dropped is not killed).
WaitErr ==
    /\ pc = "wait"
    /\ calls' = Append(calls, "wait:err")
    /\ result' = WaitFailure
    /\ pc' = OnErr
    /\ UNCHANGED <<env_CARGO, target_windows, command, fix, package, cargo,
                   clippy_command, rule_idx, stderr, child, child_status,
                   exit_status, exit_code>>

\* if !exit_status.success() { bail!(..) } Ok(())
CheckStatus ==
    /\ pc = "check_status"
    /\ calls' = Append(calls, "success?")
    /\ result' = StatusResult(exit_status)
    /\ pc' = "returned"
    /\ UNCHANGED <<env_CARGO, target_windows, command, fix, package, cargo,
                   clippy_command, rule_idx, stderr, child, child_status,
                   exit_status, exit_code>>

\* ------------------------------------------------------------ specification

\* The steps the sequential program takes on its own.
ProgramStep ==
    \/ ParseClippy
    \/ ParseHelp
    \/ ParseUsageError
    \/ NewCommand
    \/ ArgScope
    \/ ArgBuildFlags
    \/ ArgFix
    \/ ArgSeparator
    \/ ArgDenyWarnings
    \/ AllowBranch
    \/ AllowRule
    \/ AllowDone
    \/ ArgForcedDeny
    \/ EmitCommandLine
    \/ SpawnOk
    \/ SpawnErr
    \/ WaitOk
    \/ CheckStatus
    \/ MainReturn

Next ==
    \/ ProgramStep
    \/ WaitErr
    \/ ChildTerminates

Spec == Init /\ [][Next]_vars

\* The program keeps executing while it has a step to take.  Nothing makes
\* the child terminate, and nothing makes wait fail.
FairSpec == Spec /\ WF_vars(ProgramStep)

\* ------------------------------------------------- reading the argument vector

\* The arguments of the command (Command::get_args: the program excluded).
Args == clippy_command.args

\* run_clippy has finished constructing the argument vector.
Built ==
    /\ command = "Clippy"
    /\ pc \in {"emit", "spawn", "wait", "check_status", "returned", "exited"}

\* The places where token x is directly followed by token y.
PairsAt(a, x, y) == {i \in 1..(Len(a) - 1) : a[i] = x /\ a[i + 1] = y}

\* The places where token x occurs.
TokensAt(a, x) == {i \in 1..Len(a) : a[i] = x}

\* The lint flags: what follows the first "--" of the vector.
LintFlags(a) ==
    IF TokensAt(a, "--") = {}
        THEN <<>>
        ELSE LET sep == CHOOSE i \in TokensAt(a, "--") :
                            \A j \in TokensAt(a, "--") : i <= j
             IN  SubSeq(a, sep + 1, Len(a))

RuleSet == {MIGRATORY_RULES_TO_ALLOW[k] : k \in DOMAIN MIGRATORY_RULES_TO_ALLOW}

\* ------------------------------------------------------------------ claims

\* C1: with --fix, whatever the package, the constructed argument vector
\* holds no "--allow <rule>" for any rule of MIGRATORY_RULES_TO_ALLOW.
C1_NoAllowWhenFixing ==
    (Built /\ fix) =>
        \A r \in RuleSet : PairsAt(Args, "--allow", r) = {}

\* A --fix run, of a package named like the allow flag, has finished.
C1_Witness ==
    Built /\ fix /\ package = Some("--allow") /\ pc = "exited"

\* C2: without --fix, the constructed argument vector holds exactly one
\* "--allow <rule>" pair per entry of MIGRATORY_RULES_TO_ALLOW, its lint
\* flags hold no other "--allow", and the pairs are in the list's order.
C2_AllowsMatchList ==
    (Built /\ ~fix) =>
        LET R == MIGRATORY_RULES_TO_ALLOW
            at == [k \in DOMAIN R |-> PairsAt(Args, "--allow", R[k])]
            place(k) == CHOOSE i \in at[k] : TRUE
        IN  /\ \A k \in DOMAIN R : Cardinality(at[k]) = 1
            /\ Cardinality(TokensAt(LintFlags(Args), "--allow")) = Len(R)
            /\ \A k \in 1..(Len(R) - 1) : place(k) < place(k + 1)

\* A run without --fix, of a package named like the allow flag, has
\* constructed its vector.
C2_Witness ==
    Built /\ ~fix /\ package = Some("--allow") /\ pc = "spawn"

\* C4: "--deny clippy::dbg_macro" and "--deny clippy::todo" each occur
\* exactly once in the constructed argument vector, they are its last four
\* elements, and every "--allow" comes before them.
C4_ForcedDeniesLast ==
    Built =>
        LET n == Len(Args)
            dbg == PairsAt(Args, "--deny", "clippy::dbg_macro")
            todo == PairsAt(Args, "--deny", "clippy::todo")
        IN  /\ Cardinality(dbg) = 1
            /\ Cardinality(todo) = 1
            /\ dbg \cup todo = {n - 3, n - 1}
            /\ \A i \in TokensAt(Args, "--allow") : i < n - 3

\* The vector was constructed with the allow flags in it, for a package
\* named like the deny flag.
C4_Witness ==
    /\ Built
    /\ ~fix
    /\ package = Some("--deny")
    /\ PairsAt(Args, "--allow", "clippy::vec_init_then_push") # {}

\* The allow flags of the whole list, written out by position.
AllAllows ==
    [i \in 1..(2 * Len(MIGRATORY_RULES_TO_ALLOW)) |->
        IF i % 2 = 1 THEN "--allow" ELSE MIGRATORY_RULES_TO_ALLOW[i \div 2]]

\* C8: the constructed argument vector is exactly: clippy; the scope
\* selector; --release --all-targets --all-features; --fix iff fix; "--";
\* --deny warnings iff the target is not Windows; the allow flags iff not
\* fix; the two forced denies.  It does not depend on CARGO.
C8_ExactVector ==
    Built =>
        Args =
            <<"clippy">>
            \o (IF package = None THEN <<"--workspace">>
                                  ELSE <<"--package", package[1]>>)
            \o <<"--release", "--all-targets", "--all-features">>
            \o (IF fix THEN <<"--fix">> ELSE <<>>)
            \o <<"--">>
            \o (IF target_windows THEN <<>> ELSE <<"--deny", "warnings">>)
            \o (IF fix THEN <<>> ELSE AllAllows)
            \o <<"--deny", "clippy::dbg_macro", "--deny", "clippy::todo">>

\* The scenario {fix, package editor} on a target other than Windows, with
\* CARGO overriding the executable.
C8_Witness ==
    /\ Built
    /\ fix
    /\ package = Some("editor")
    /\ ~target_windows
    /\ env_CARGO.kind = "Ok"
    /\ pc = "emit"

\* C3 as stated: exactly one scope selector is in the constructed vector,
\* for every package value: with a package, "--package <name>" is present,
\* "--package" occurs once and "--workspace" does not occur; without one,
\* "--workspace" occurs once and "--package" does not occur.
C3_Original ==
    Built =>
        IF package # None
            THEN /\ PairsAt(Args, "--package", package[1]) # {}
                 /\ Cardinality(TokensAt(Args, "--package")) = 1
                 /\ TokensAt(Args, "--workspace") = {}
            ELSE /\ Cardinality(TokensAt(Args, "--workspace")) = 1
                 /\ TokensAt(Args, "--package") = {}

\* C3, amended: exactly one scope selector is emitted, directly after the
\* subcommand.  With a package it is "--package <name>", and apart from the
\* element that holds the name the vector holds no other "--package" and no
\* "--workspace"; without one it is "--workspace", and the vector holds no
\* "--package".
C3_OneScopeSelector ==
    Built =>
        IF package # None
            THEN LET others == SubSeq(Args, 1, 2) \o SubSeq(Args, 4, Len(Args))
                 IN  /\ Args[2] = "--package"
                     /\ Args[3] = package[1]
                     /\ TokensAt(others, "--package") = {2}
                     /\ TokensAt(others, "--workspace") = {}
            ELSE /\ TokensAt(Args, "--workspace") = {2}
                 /\ TokensAt(Args, "--package") = {}

\* The vector was constructed for a package named like the whole-workspace
\* flag.
C3_Witness ==
    Built /\ package = Some("--workspace") /\ pc = "wait"

\* ------------------------------------------------------- reading the outcome

\* Call c was made.
Called(c) == \E i \in DOMAIN calls : calls[i] = c

\* run_clippy has returned.
Returned == result.tag # "none"

\* The error kinds of the specification, told apart by the error's message.
ErrorKind(r) ==
    CASE r.tag # "Err" -> "none"
      [] r.context = "failed to spawn child process" -> "ProcessSpawnError"
      [] r.context = "failed to wait for child process" -> "ProcessWaitError"
      [] r.context = "clippy failed: {}" -> "LintFailure"
      [] OTHER -> "unknown"

\* C5: once spawn and wait have succeeded, run_clippy returns Ok if the
\* child reported success, and otherwise an error that is a LintFailure and
\* carries the status the child reported, and no other.
C5_StatusTranslated ==
    (Returned /\ Called("wait:ok")) =>
        IF success(child_status)
            THEN result = Ok
            ELSE /\ ErrorKind(result) = "LintFailure"
                 /\ result.status = Display(child_status)
                 /\ \A st \in ExitStatuses :
                        Display(st) = result.status => st = child_status

\* run_clippy has returned after a child that was killed by a signal.
C5_Witness ==
    Returned /\ Called("wait:ok") /\ ~child_status.exited /\ pc = "returned"

\* The child was spawned, was waited on, and reported success.
ChildSucceeded ==
    Called("spawn:ok") /\ Called("wait:ok") /\ success(child_status)

\* One of the three failures happened.
ChildFailed ==
    \/ Called("spawn:err")
    \/ Called("wait:err")
    \/ Called("wait:ok") /\ ~success(child_status)

\* C6 as stated: the wrapper's exit code is 0 if and only if the child was
\* spawned, was waited on and reported success, and it is non-zero in each
\* of the three failure cases.
C6_Original ==
    pc = "exited" =>
        /\ exit_code = 0 <=> ChildSucceeded
        /\ ChildFailed => exit_code # 0

\* C6, amended: the wrapper's exit code is 0 if and only if either the child
\* was spawned, was waited on and reported success, or the command line asked
\* for help (no child is spawned then); it is non-zero in each of the three
\* failure cases.
C6_ExitCode ==
    pc = "exited" =>
        /\ exit_code = 0 <=> (ChildSucceeded \/ command = "help")
        /\ ChildFailed => exit_code # 0

\* The wrapper has exited after a failed wait.
C6_Witness ==
    pc = "exited" /\ Called("wait:err") /\ exit_code # 0

\* C7: a failed spawn makes run_clippy fail with a ProcessSpawnError whose
\* context is "failed to spawn child process", with no wait and no look at
\* an exit status; a failed wait makes it fail with a ProcessWaitError, with
\* no look at an exit status; a LintFailure comes only after both spawn and
\* wait succeeded.
C7_FailureKinds ==
    /\ Called("spawn:err") =>
        /\ ErrorKind(result) = "ProcessSpawnError"
        /\ result.context = "failed to spawn child process"
        /\ calls = <<"spawn:err">>
        /\ exit_status = NoStatus
    /\ Called("wait:err") =>
        /\ ErrorKind(result) = "ProcessWaitError"
        /\ calls = <<"spawn:ok", "wait:err">>
        /\ exit_status = NoStatus
    /\ ErrorKind(result) = "LintFailure" =>
        calls = <<"spawn:ok", "wait:ok", "success?">>
    /\ result.tag = "Err" =>
        ErrorKind(result)
            \in {"ProcessSpawnError", "ProcessWaitError", "LintFailure"}

\* run_clippy has returned the error of a failed spawn.
C7_Witness ==
    Called("spawn:err") /\ pc = "returned"

\* The state of the run, in the words of the specification.
Phase ==
    CASE result.tag = "Ok" -> "Succeeded"
      [] result.tag = "Err" -> "Failed"
      [] pc \in {"wait", "check_status"} -> "Running"
      [] pc = "spawn" -> "Spawning"
      [] OTHER -> "NotStarted"

\* The steps of the lifecycle; a failed spawn fails the run from Spawning.
PhaseSteps ==
    {<<"NotStarted", "Spawning">>, <<"Spawning", "Running">>,
     <<"Spawning", "Failed">>, <<"Running", "Succeeded">>,
     <<"Running", "Failed">>}

\* How many times spawn was called.
Spawns == Cardinality({i \in DOMAIN calls : calls[i] \in {"spawn:ok", "spawn:err"}})

\* How many times the command line was written to standard error.
RunningLines == Cardinality({i \in DOMAIN stderr : stderr[i].kind = "running"})

\* C9: a run moves only forward along NotStarted -> Spawning -> Running ->
\* {Succeeded, Failed}; Succeeded and Failed are terminal and nothing is
\* called after them; the child is spawned at most once; and the command
\* line is written exactly once, before the spawn.
C9_Lifecycle ==
    [][/\ Phase' # Phase => <<Phase, Phase'>> \in PhaseSteps
       /\ Phase \in {"Succeeded", "Failed"} => calls' = calls
       /\ Spawns' <= 1
       /\ RunningLines' <= 1
       /\ Spawns' > Spawns => RunningLines = 1
       /\ Phase' # "NotStarted" => RunningLines' = 1]_vars

\* A run has failed at its one spawn and the wrapper has exited.
C9_Witness ==
    Phase = "Failed" /\ Spawns = 1 /\ RunningLines = 1 /\ pc = "exited"

\* C10 as stated, its first part: on every path, run_clippy has not returned
\* while the child it spawned is still running.
C10_Original ==
    (Returned /\ Called("spawn:ok")) => child # "running"

\* C10, amended: run_clippy returns Ok or a LintFailure only after the child
\* has terminated; if it returns while the child it spawned is still running,
\* then wait failed.  It leaves wait only when the child has terminated or
\* wait failed (no timeout), and once the child has terminated run_clippy
\* eventually returns.
C10_BlocksUntilExit ==
    /\ [](Returned /\ Called("spawn:ok") /\ child = "running"
            => ErrorKind(result) = "ProcessWaitError")
    /\ [][pc = "wait" /\ pc' # "wait"
            => child = "exited" \/ ErrorKind(result') = "ProcessWaitError"]_vars
    /\ [](child = "exited" => <>Returned)

\* run_clippy has returned a LintFailure for a child that has terminated.
C10_Witness ==
    ErrorKind(result) = "LintFailure" /\ child = "exited" /\ pc = "returned"
====
